---- MODULE Spec2Model ----
(***************************************************************************)
(* A model of presence (src/main.go): a web server that reads one frame    *)
(* from a shared webcam per request, runs the Haar face, eye and LBP face  *)
(* cascades over it, draws the detections on the frame and answers with    *)
(* the frame as a JPEG.                                                    *)
(*                                                                         *)
(* main/run (startup, deferred Close calls, exit) is one process; every    *)
(* request is served by handleRequest in a goroutine of its own, so the    *)
(* handlers interleave freely.  The only state the handlers share is the   *)
(* capture device (webcam) and the three read-only classifiers.            *)
(*                                                                         *)
(* The library calls (OpenVideoCapture, Load, Read, DetectMultiScale,      *)
(* IMEncode, image.Decode, jpeg.Encode, ListenAndServe) are the            *)
(* environment: each returns any of the results its signature allows.      *)
(***************************************************************************)
EXTENDS Integers, Sequences, FiniteSets, TLC

VARIABLES mainPc, res, closes, defers, failedAt, registered, exitCode,
          inRead, req

vars == <<mainPc, res, closes, defers, failedAt, registered, exitCode,
          inRead, req>>

(***************************************************************************)
(* Bounds of the model.                                                    *)
(***************************************************************************)
NumRequests == 2
MaxHaar == 2
MaxEyes == 1
MaxLbp == 1
NumChunks == 2

Requests == 1..NumRequests

(***************************************************************************)
(* Package-level variables of main.go.                                     *)
(***************************************************************************)
minFaceSize == 200
maxFaceSize == 600

Resources == {"webcam", "haarFaceCascade", "eyeCascade", "lbpFaceCascade"}

Green == <<0, 255, 0, 0>>
Blue == <<0, 0, 255, 0>>
Red == <<255, 0, 0, 0>>

(***************************************************************************)
(* image.Point, image.Rectangle and Rectangle.Size.                        *)
(***************************************************************************)
Pt(x, y) == [X |-> x, Y |-> y]

Rect(x0, y0, x1, y1) == [Min |-> Pt(x0, y0), Max |-> Pt(x1, y1)]

Size(r) == Pt(r.Max.X - r.Min.X, r.Max.Y - r.Min.Y)

(***************************************************************************)
(* What the detectors may return.  The Haar boxes sit on and next to both  *)
(* thresholds, with heights chosen independently of the widths; the eye    *)
(* boxes are in the coordinates of the region handed to the eye cascade.   *)
(***************************************************************************)
HaarBoxes == { Rect(10, 20, 210, 420),     \* 200 x 400
               Rect(30, 5, 231, 705),      \* 201 x 700
               Rect(0, 40, 599, 190),      \* 599 x 150
               Rect(5, 5, 605, 305) }      \* 600 x 300

EyeBoxes == { Rect(40, 50, 80, 90), Rect(100, 60, 150, 85) }

LbpBoxes == { Rect(30, 5, 231, 705),       \* 201 x 700, also a Haar box
              Rect(0, 60, 700, 110) }      \* 700 x 50

RECURSIVE SeqsUpTo(_, _)
SeqsUpTo(S, n) ==
    IF n = 0 THEN {<<>>}
    ELSE LET shorter == SeqsUpTo(S, n - 1)
         IN  shorter \cup {Append(s, x) : s \in shorter, x \in S}

HaarLists == SeqsUpTo(HaarBoxes, MaxHaar)
EyeLists == SeqsUpTo(EyeBoxes, MaxEyes)
LbpLists == SeqsUpTo(LbpBoxes, MaxLbp)

\* The results used when several requests run at once.
FewHaarLists == {<<>>, <<Rect(30, 5, 231, 705)>>}
FewEyeLists == {<<Rect(40, 50, 80, 90)>>}
FewLbpLists == {<<Rect(0, 60, 700, 110)>>}

(***************************************************************************)
(* Mats.  A Mat is described by the buffer it reads, its channel count,    *)
(* the region of the buffer it shows and the number of drawing calls the   *)
(* buffer has received so far.                                             *)
(***************************************************************************)
Whole == "whole"

NoMat == [data |-> "none", channels |-> 0, roi |-> Whole, marks |-> 0]

IsDraw(e) == e.ev \in {"Rectangle", "PutText"}

NumDraws(events) == Len(SelectSeq(events, IsDraw))

\* webcam.Read fills imgMat with a 3-channel BGR frame.
ImgMat(events) ==
    [data |-> "imgMat", channels |-> 3, roi |-> Whole, marks |-> NumDraws(events)]

\* gocv.CvtColor(imgMat, &gray, ColorBGRToGray): a new 1-channel buffer.
CvtColorGray(m) ==
    [data |-> "gray", channels |-> 1, roi |-> m.roi, marks |-> m.marks]

\* Mat.Region(r): a view of the same buffer, not a copy.
Region(m, r) == [m EXCEPT !.roi = r]

(***************************************************************************)
(* The calls a request makes, in the order it makes them.                  *)
(***************************************************************************)
RectangleEv(box, col) ==
    [ev |-> "Rectangle", box |-> box, color |-> col, thickness |-> 2]

PutTextEv(text, org, col) ==
    [ev |-> "PutText", text |-> text, org |-> org, color |-> col]

DetectEv(cascade, mat, result) ==
    [ev |-> "DetectMultiScale", cascade |-> cascade, mat |-> mat, result |-> result]

IMEncodeEv(mat) == [ev |-> "IMEncode", mat |-> mat]

\* fmt.Sprintf("Size: %dx%d", r.Size().X, r.Size().Y)
SizeText(r) == <<"Size: ", Size(r).X, "x", Size(r).Y>>

LabelOrgAtCorner(r) == Pt(r.Min.X, r.Min.Y)

\* image.Pt(r.Min.X, r.Min.Y-10)
LabelOrg(r) == Pt(r.Min.X, r.Min.Y - 10)

(***************************************************************************)
(* The pure parts of handleRequest.                                        *)
(***************************************************************************)
AcceptedInclusive(r) == Size(r).X >= minFaceSize /\ Size(r).X <= maxFaceSize

\* if r.Size().X > minFaceSize && r.Size().X < maxFaceSize
Accepted(r) == Size(r).X > minFaceSize /\ Size(r).X < maxFaceSize

RemapEyeMinOnly(e, r) ==
    Rect(e.Min.X + r.Min.X, e.Min.Y + r.Min.Y, e.Max.X, e.Max.Y)

\* eyeRect.Min.X += r.Min.X ... eyeRect.Max.Y += r.Min.Y
RemapEye(e, r) ==
    Rect(e.Min.X + r.Min.X, e.Min.Y + r.Min.Y, e.Max.X + r.Min.X, e.Max.Y + r.Min.Y)

\* for _, eyeRect := range eyes { ...; gocv.Rectangle(&imgMat, eyeRect, blue, 2) }
EyeDraws(eyes, r) ==
    [k \in 1..Len(eyes) |-> RectangleEv(RemapEye(eyes[k], r), Blue)]

\* The calls of the face's own annotation: Rectangle, then PutText.
FaceDraws(r, col) ==
    <<RectangleEv(r, col), PutTextEv(SizeText(r), LabelOrg(r), col)>>

HaarAcceptEyesFirst(events, r, eyes) ==
    LET roiMat == Region(ImgMat(events), r)
    IN  events \o <<DetectEv("eyeCascade", roiMat, eyes)>> \o EyeDraws(eyes, r)
               \o FaceDraws(r, Green)

\* The body of the Haar loop for an accepted box r, the eye cascade
\* returning eyes: the face is drawn on imgMat, then the eye cascade runs on
\* imgMat.Region(r), then the eyes are drawn.
HaarAccept(events, r, eyes) ==
    LET drawn == events \o FaceDraws(r, Green)
        roiMat == Region(ImgMat(drawn), r)
    IN  drawn \o <<DetectEv("eyeCascade", roiMat, eyes)>> \o EyeDraws(eyes, r)

LbpFiltered(r) == Accepted(r)

\* The size test of the LBP loop is commented out: every box is kept.
LbpKept(r) == TRUE

RECURSIVE LbpDraws(_)
LbpDraws(rs) ==
    IF rs = <<>> THEN <<>>
    ELSE (IF LbpKept(Head(rs)) THEN FaceDraws(Head(rs), Red) ELSE <<>>)
         \o LbpDraws(Tail(rs))

AfterReadNoReturn(ok) == "cvt"

\* if ok := webcam.Read(&imgMat); !ok { ...; return }
AfterRead(ok) == IF ok THEN "cvt" ELSE "done"

(***************************************************************************)
(* The initial state: main has not yet called run, no request has come.    *)
(***************************************************************************)
NewRequest ==
    [pc |-> "idle", reads |-> 0, overlapped |-> FALSE, torn |-> FALSE,
     gray |-> NoMat, rects |-> <<>>, i |-> 1, events |-> <<>>,
     ctype |-> "", body |-> 0, outcome |-> ""]

Init ==
    /\ mainPc = "open"
    /\ res = [r \in Resources |-> "none"]
    /\ closes = [r \in Resources |-> 0]
    /\ defers = <<>>
    /\ failedAt = "none"
    /\ registered = FALSE
    /\ exitCode = -1
    /\ inRead = {}
    /\ req = [h \in Requests |-> NewRequest]

(***************************************************************************)
(* run: startup.                                                           *)
(***************************************************************************)
DefersAfterLoad(ds, r, ok) == IF ok THEN Append(ds, r) ELSE ds

\* The deferred calls after x = New...(); defer x.Close(); if !x.Load(..) {return}
DefersAfterNew(ds, r, ok) == Append(ds, r)

Fail(stage) ==
    /\ failedAt' = stage
    /\ mainPc' = "returning"

\* webcam, err = gocv.OpenVideoCapture(deviceID); on error return, else defer Close
OpenVideoCapture ==
    /\ mainPc = "open"
    /\ \E ok \in BOOLEAN :
         IF ok
         THEN /\ res' = [res EXCEPT !["webcam"] = "open"]
              /\ defers' = Append(defers, "webcam")
              /\ mainPc' = "haar"
              /\ UNCHANGED failedAt
         ELSE /\ Fail("open")
              /\ UNCHANGED <<res, defers>>
    /\ UNCHANGED <<closes, registered, exitCode, inRead, req>>

LoadClassifier(stage, r, next) ==
    /\ mainPc = stage
    /\ res' = [res EXCEPT ![r] = "open"]
    /\ \E ok \in BOOLEAN :
         /\ defers' = DefersAfterNew(defers, r, ok)
         /\ IF ok
            THEN mainPc' = next /\ UNCHANGED failedAt
            ELSE Fail(stage)
    /\ UNCHANGED <<closes, registered, exitCode, inRead, req>>

LoadHaar == LoadClassifier("haar", "haarFaceCascade", "eye")

LoadEye == LoadClassifier("eye", "eyeCascade", "lbp")

LoadLbp == LoadClassifier("lbp", "lbpFaceCascade", "listen")

\* http.HandleFunc("/", handleRequest); return http.ListenAndServe(...)
ListenAndServe ==
    /\ mainPc = "listen"
    /\ registered' = TRUE
    /\ \E ok \in BOOLEAN :
         IF ok
         THEN mainPc' = "serving" /\ UNCHANGED failedAt
         ELSE Fail("listen")
    /\ UNCHANGED <<res, closes, defers, exitCode, inRead, req>>

\* The deferred Close calls run last-in first-out as run returns.
RunDefer ==
    /\ mainPc = "returning"
    /\ defers # <<>>
    /\ LET r == defers[Len(defers)]
       IN  /\ res' = [res EXCEPT ![r] = "closed"]
           /\ closes' = [closes EXCEPT ![r] = @ + 1]
    /\ defers' = SubSeq(defers, 1, Len(defers) - 1)
    /\ UNCHANGED <<mainPc, failedAt, registered, exitCode, inRead, req>>

\* main: if err := run(); err != nil { ...; os.Exit(1) }
MainExit ==
    /\ mainPc = "returning"
    /\ defers = <<>>
    /\ mainPc' = "exited"
    /\ exitCode' = 1
    /\ UNCHANGED <<res, closes, defers, failedAt, registered, inRead, req>>

Startup ==
    \/ OpenVideoCapture
    \/ LoadHaar
    \/ LoadEye
    \/ LoadLbp
    \/ ListenAndServe
    \/ RunDefer
    \/ MainExit

(***************************************************************************)
(* handleRequest, one action per call that can interleave or fail.         *)
(***************************************************************************)
mainVars == <<mainPc, res, closes, defers, failedAt, registered, exitCode>>

Serving == mainPc = "serving" /\ registered

\* imgMat := gocv.NewMat(); the request enters webcam.Read(&imgMat).  Nothing
\* guards the device: a request enters whoever else is inside.
ReadEnter(h) ==
    /\ Serving
    /\ req[h].pc = "idle"
    /\ inRead' = inRead \cup {h}
    /\ req' = [g \in Requests |->
                IF g = h
                THEN [req[g] EXCEPT !.pc = "inRead", !.reads = @ + 1,
                                    !.overlapped = (inRead # {})]
                ELSE IF g \in inRead
                THEN [req[g] EXCEPT !.overlapped = TRUE]
                ELSE req[g]]
    /\ UNCHANGED mainVars

\* webcam.Read returns.  A read that ran beside another one is a data race
\* on the device's frame buffer: its frame may or may not be torn.
ReadReturn(h) ==
    /\ req[h].pc = "inRead"
    /\ inRead' = inRead \ {h}
    /\ \E ok \in BOOLEAN :
       \E t \in (IF ok /\ req[h].overlapped THEN BOOLEAN ELSE {FALSE}) :
         req' = [req EXCEPT ![h] =
                   [@ EXCEPT !.pc = AfterRead(ok), !.torn = t,
                             !.outcome = IF ok THEN "" ELSE "readFailed"]]
    /\ UNCHANGED mainVars

\* gray := gocv.NewMat(); gocv.CvtColor(imgMat, &gray, gocv.ColorBGRToGray)
CvtColor(h) ==
    /\ req[h].pc = "cvt"
    /\ req' = [req EXCEPT ![h] =
                 [@ EXCEPT !.pc = "haar", !.gray = CvtColorGray(ImgMat(req[h].events))]]
    /\ UNCHANGED <<mainVars, inRead>>

\* rects := haarFaceCascade.DetectMultiScale(gray)
HaarDetect(h, lists) ==
    /\ req[h].pc = "haar"
    /\ \E rs \in lists :
         req' = [req EXCEPT ![h] =
                   [@ EXCEPT !.pc = "loop", !.rects = rs, !.i = 1,
                             !.events = Append(@, DetectEv("haarFaceCascade", req[h].gray, rs))]]
    /\ UNCHANGED <<mainVars, inRead>>

\* One iteration of for _, r := range rects.
HaarIter(h, lists) ==
    /\ req[h].pc = "loop"
    /\ req[h].i <= Len(req[h].rects)
    /\ LET r == req[h].rects[req[h].i]
       IN  IF Accepted(r)
           THEN \E eyes \in lists :
                  req' = [req EXCEPT ![h] =
                            [@ EXCEPT !.i = @ + 1,
                                      !.events = HaarAccept(@, r, eyes)]]
           ELSE req' = [req EXCEPT ![h] = [@ EXCEPT !.i = @ + 1]]
    /\ UNCHANGED <<mainVars, inRead>>

\* rects = lbpFaceCascade.DetectMultiScale(gray) and the loop over rects.
LbpPass(h, lists) ==
    /\ req[h].pc = "loop"
    /\ req[h].i > Len(req[h].rects)
    /\ \E rs \in lists :
         req' = [req EXCEPT ![h] =
                   [@ EXCEPT !.pc = "imencode", !.rects = rs,
                             !.events = Append(@, DetectEv("lbpFaceCascade", req[h].gray, rs))
                                        \o LbpDraws(rs)]]
    /\ UNCHANGED <<mainVars, inRead>>

\* buf, err := gocv.IMEncode(".jpg", imgMat); on error return
IMEncode(h) ==
    /\ req[h].pc = "imencode"
    /\ \E ok \in BOOLEAN :
         req' = [req EXCEPT ![h] =
                   [@ EXCEPT !.pc = IF ok THEN "decode" ELSE "done",
                             !.outcome = IF ok THEN "" ELSE "imencodeFailed",
                             !.events = Append(@, IMEncodeEv(ImgMat(@)))]]
    /\ UNCHANGED <<mainVars, inRead>>

\* out, _, err := image.Decode(bytes.NewReader(bufSlice)); on error return
Decode(h) ==
    /\ req[h].pc = "decode"
    /\ \E ok \in BOOLEAN :
         req' = [req EXCEPT ![h] =
                   [@ EXCEPT !.pc = IF ok THEN "write" ELSE "done",
                             !.outcome = IF ok THEN "" ELSE "decodeFailed"]]
    /\ UNCHANGED <<mainVars, inRead>>

\* w.Header().Set("Content-Type", "image/jpeg"); err = jpeg.Encode(w, out, nil)
\* jpeg.Encode streams into w: it fails when a write to w fails, after the
\* n chunks before it went out.
JpegEncode(h) ==
    /\ req[h].pc = "write"
    /\ \E n \in 0..NumChunks :
         req' = [req EXCEPT ![h] =
                   [@ EXCEPT !.pc = "done", !.ctype = "image/jpeg", !.body = n,
                             !.outcome = IF n = NumChunks THEN "ok" ELSE "writeFailed"]]
    /\ UNCHANGED <<mainVars, inRead>>

(***************************************************************************)
(* Spec: the whole program, the requests served side by side.              *)
(* SpecPipeline: the whole program serving a single request, the           *)
(* detectors returning every list of boxes within the bounds.              *)
(***************************************************************************)
Next ==
    \/ Startup
    \/ \E h \in Requests :
         \/ ReadEnter(h)
         \/ ReadReturn(h)
         \/ CvtColor(h)
         \/ HaarDetect(h, FewHaarLists)
         \/ HaarIter(h, FewEyeLists)
         \/ LbpPass(h, FewLbpLists)
         \/ IMEncode(h)
         \/ Decode(h)
         \/ JpegEncode(h)

Spec == Init /\ [][Next]_vars

NextPipeline ==
    \/ Startup
    \/ ReadEnter(1)
    \/ ReadReturn(1)
    \/ CvtColor(1)
    \/ HaarDetect(1, HaarLists)
    \/ HaarIter(1, EyeLists)
    \/ LbpPass(1, LbpLists)
    \/ IMEncode(1)
    \/ Decode(1)
    \/ JpegEncode(1)

SpecPipeline == Init /\ [][NextPipeline]_vars

(***************************************************************************)
(* Reading a request's calls back.                                         *)
(***************************************************************************)
Ev(h) == req[h].events

IsCall(e, cascade) == e.ev = "DetectMultiScale" /\ e.cascade = cascade

IsRect(e, col) == e.ev = "Rectangle" /\ e.color = col

IsText(e, col) == e.ev = "PutText" /\ e.color = col

Calls(h, cascade) == SelectSeq(Ev(h), LAMBDA e : IsCall(e, cascade))

CountOf(seq, Test(_)) == Len(SelectSeq(seq, Test))

Positions(h) == 1..Len(Ev(h))

\* The Haar boxes the loop has gone through so far.
Processed(h) ==
    IF Calls(h, "haarFaceCascade") = <<>> THEN <<>>
    ELSE LET all == Calls(h, "haarFaceCascade")[1].result
         IN  IF req[h].pc = "loop" THEN SubSeq(all, 1, req[h].i - 1) ELSE all

\* The request has left the LBP loop behind.
PastLbp(h) ==
    \/ req[h].pc \in {"imencode", "decode", "write"}
    \/ req[h].pc = "done" /\ req[h].outcome # "readFailed"

WidthInRange(b) == b.Max.X - b.Min.X > 200 /\ b.Max.X - b.Min.X < 600

LabelOf(b) == <<"Size: ", b.Max.X - b.Min.X, "x", b.Max.Y - b.Min.Y>>

(***************************************************************************)
(* C1.  A box the Haar cascade returned is drawn in green, labelled and    *)
(* searched for eyes exactly when 200 < width < 600, both strict; a box    *)
(* of width 200 or 600 leaves no green drawing and no eye search, and the  *)
(* loop raises no error.  The height plays no part.                        *)
(***************************************************************************)
C1_HaarSizeFilter ==
    \A h \in Requests :
      LET done == Processed(h)
          evs == Ev(h)
      IN  /\ req[h].pc = "loop" => req[h].outcome = ""
          /\ \A k \in 1..Len(done) :
               LET b == done[k]
                   n == IF WidthInRange(b)
                        THEN CountOf(done, LAMBDA x : x = b)
                        ELSE 0
               IN  /\ CountOf(evs, LAMBDA e : IsRect(e, Green) /\ e.box = b) = n
                   /\ CountOf(evs, LAMBDA e : IsText(e, Green) /\ e.text = LabelOf(b)) = n
                   /\ CountOf(evs, LAMBDA e : IsCall(e, "eyeCascade") /\ e.mat.roi = b) = n

\* The loop went through a box on each threshold and a box just inside each,
\* the accepted ones with heights outside the thresholds.
C1_Witness ==
    \E h \in Requests :
      /\ PastLbp(h)
      /\ \E j, k \in 1..Len(Processed(h)) :
           LET a == Processed(h)[j]
               b == Processed(h)[k]
           IN  /\ a.Max.X - a.Min.X \in {200, 600}
               /\ b.Max.X - b.Min.X \in {201, 599}
               /\ ~(b.Max.Y - b.Min.Y > 200 /\ b.Max.Y - b.Min.Y < 600)
               /\ \E p \in Positions(h) : IsRect(Ev(h)[p], Green) /\ Ev(h)[p].box = b

(***************************************************************************)
(* C2.  For an accepted face F and every eye box E the eye cascade         *)
(* returned for F's region, the box drawn for the eye has both corners     *)
(* moved by F's origin: min = E.min + F.min, max = E.max + F.min.  Its     *)
(* width and height are those of E, and min <= max still holds.            *)
(***************************************************************************)
C2_EyeRemap ==
    \A h \in Requests : \A p \in Positions(h) :
      IsCall(Ev(h)[p], "eyeCascade") =>
        LET F == Ev(h)[p].mat.roi
            eyes == Ev(h)[p].result
        IN  /\ p + Len(eyes) <= Len(Ev(h))
            /\ \A k \in 1..Len(eyes) :
                 LET E == eyes[k]
                     d == Ev(h)[p + k]
                 IN  /\ d.ev = "Rectangle"
                     /\ d.box.Min.X = E.Min.X + F.Min.X
                     /\ d.box.Min.Y = E.Min.Y + F.Min.Y
                     /\ d.box.Max.X = E.Max.X + F.Min.X
                     /\ d.box.Max.Y = E.Max.Y + F.Min.Y
                     /\ d.box.Max.X - d.box.Min.X = E.Max.X - E.Min.X
                     /\ d.box.Max.Y - d.box.Min.Y = E.Max.Y - E.Min.Y
                     /\ d.box.Min.X <= d.box.Max.X
                     /\ d.box.Min.Y <= d.box.Max.Y

\* An eye was found in a face whose origin is off both axes, and drawn.
C2_Witness ==
    \E h \in Requests : \E p \in Positions(h) :
      /\ IsCall(Ev(h)[p], "eyeCascade")
      /\ Len(Ev(h)[p].result) >= 1
      /\ Ev(h)[p].mat.roi.Min.X > 0
      /\ Ev(h)[p].mat.roi.Min.Y > 0
      /\ IsRect(Ev(h)[p + 1], Blue)

(***************************************************************************)
(* C3.  Once the read has succeeded the LBP cascade runs exactly once, on  *)
(* the grayscale Mat the Haar cascade ran on, whatever the Haar pass       *)
(* returned or accepted, and every box it returns is drawn in red and      *)
(* labelled, in order, none filtered by size or dropped for a Haar box.    *)
(***************************************************************************)
C3_LbpUnconditional ==
    \A h \in Requests :
      /\ Len(Calls(h, "lbpFaceCascade")) <= 1
      /\ PastLbp(h) =>
           /\ Len(Calls(h, "lbpFaceCascade")) = 1
           /\ Len(Calls(h, "haarFaceCascade")) = 1
           /\ LET c == Calls(h, "lbpFaceCascade")[1]
                  p == CHOOSE q \in Positions(h) : IsCall(Ev(h)[q], "lbpFaceCascade")
              IN  /\ c.mat = Calls(h, "haarFaceCascade")[1].mat
                  /\ c.mat.data = "gray"
                  /\ c.mat.roi = Whole
                  /\ CountOf(Ev(h), LAMBDA e : e.ev \in {"Rectangle", "PutText"} /\ e.color = Red)
                       = 2 * Len(c.result)
                  /\ \A k \in 1..Len(c.result) :
                       /\ p + 2 * k <= Len(Ev(h))
                       /\ IsRect(Ev(h)[p + 2 * k - 1], Red)
                       /\ Ev(h)[p + 2 * k - 1].box = c.result[k]
                       /\ IsText(Ev(h)[p + 2 * k], Red)

\* The LBP cascade returned a box the Haar pass had accepted and drawn in
\* green; it is drawn again in red.
C3_Witness ==
    \E h \in Requests :
      /\ PastLbp(h)
      /\ \E q, g \in Positions(h) :
           /\ IsRect(Ev(h)[q], Red)
           /\ IsRect(Ev(h)[g], Green)
           /\ Ev(h)[g].box = Ev(h)[q].box

\* The LBP cascade ran although the Haar cascade had returned nothing, and
\* its box, wider than the Haar thresholds allow, is drawn.
C3_WitnessNoHaar ==
    \E h \in Requests :
      /\ PastLbp(h)
      /\ Calls(h, "haarFaceCascade")[1].result = <<>>
      /\ \E p \in Positions(h) : IsRect(Ev(h)[p], Red) /\ ~WidthInRange(Ev(h)[p].box)

(***************************************************************************)
(* C4.  Reads of the shared capture device are serialized: no two          *)
(* requests are inside webcam.Read at once, and no request gets a frame    *)
(* torn by another request's read.                                         *)
(***************************************************************************)
C4_ReadsSerialized ==
    /\ Cardinality(inRead) <= 1
    /\ \A h \in Requests : ~req[h].torn

(***************************************************************************)
(* C5.  A request whose read failed has ended: it read once, converted     *)
(* nothing, called no detector, drew nothing, encoded nothing, set no      *)
(* Content-Type and wrote no byte; the server goes on serving.             *)
(***************************************************************************)
C5_ReadFailureEndsRequest ==
    \A h \in Requests :
      req[h].outcome = "readFailed" =>
        /\ req[h].pc = "done"
        /\ req[h].reads = 1
        /\ req[h].gray = NoMat
        /\ req[h].events = <<>>
        /\ req[h].ctype = ""
        /\ req[h].body = 0
        /\ mainPc = "serving"
        /\ h \notin inRead

\* One request's read failed and another request was answered in full.
C5_Witness ==
    \E h, g \in Requests :
      /\ req[h].outcome = "readFailed"
      /\ req[g].outcome = "ok"
      /\ req[g].body = NumChunks

(***************************************************************************)
(* C6.  When any of the three encoding steps fails (IMEncode, the          *)
(* re-decode, jpeg.Encode into the response writer), no byte of the image  *)
(* has been written to the response body.                                  *)
(***************************************************************************)
C6_NoPartialBody ==
    \A h \in Requests :
      req[h].outcome \in {"imencodeFailed", "decodeFailed", "writeFailed"} =>
        req[h].body = 0

(***************************************************************************)
(* C7.  After a startup failure (device open, one of the three classifier  *)
(* loads, listen) the process exits with a non-zero code, having closed    *)
(* each resource it had acquired exactly once and no other; no handler is  *)
(* registered after the failure and no request is served.                  *)
(***************************************************************************)
AcquiredBefore(stage) ==
    CASE stage = "open" -> {}
      [] stage = "haar" -> {"webcam", "haarFaceCascade"}
      [] stage = "eye" -> {"webcam", "haarFaceCascade", "eyeCascade"}
      [] stage \in {"lbp", "listen"} -> Resources
      [] OTHER -> {}

C7_StartupFailureReleases ==
    /\ \A r \in Resources : closes[r] <= 1
    /\ failedAt = "none" => mainPc \notin {"returning", "exited"}
    /\ failedAt # "none" =>
         /\ mainPc \in {"returning", "exited"}
         /\ \A h \in Requests : req[h] = NewRequest
         /\ registered => failedAt = "listen"
         /\ \A r \in Resources \ AcquiredBefore(failedAt) : closes[r] = 0
    /\ mainPc = "exited" =>
         /\ exitCode # 0
         /\ exitCode = 1
         /\ \A r \in AcquiredBefore(failedAt) : closes[r] = 1 /\ res[r] = "closed"
    /\ mainPc # "exited" => exitCode = -1

\* The eye classifier failed to load and the process has exited.
C7_Witness ==
    /\ mainPc = "exited"
    /\ failedAt = "eye"
    /\ closes["webcam"] = 1
    /\ closes["haarFaceCascade"] = 1

(***************************************************************************)
(* C8.  Every detector call of a request (Haar face, eye, LBP face) gets   *)
(* single-channel data of the request's grayscale Mat, on which nothing    *)
(* has been drawn.                                                         *)
(***************************************************************************)
C8_DetectorsSeeGray ==
    \A h \in Requests : \A p \in Positions(h) :
      Ev(h)[p].ev = "DetectMultiScale" =>
        /\ Ev(h)[p].mat.channels = 1
        /\ Ev(h)[p].mat.data = "gray"
        /\ Ev(h)[p].mat.marks = 0

(***************************************************************************)
(* The source of the detection a Rectangle call at position p draws: what  *)
(* follows the LBP call is an LBP face, one of the boxes right after an    *)
(* eye call is an eye, anything else is a Haar face.                       *)
(***************************************************************************)
SourceAt(h, p) ==
    IF \E q \in 1..(p - 1) : IsCall(Ev(h)[q], "lbpFaceCascade")
    THEN "LBPFace"
    ELSE IF \E q \in 1..(p - 1) :
              IsCall(Ev(h)[q], "eyeCascade") /\ p - q <= Len(Ev(h)[q].result)
    THEN "Eye"
    ELSE "HaarFace"

ColourOf(source) ==
    CASE source = "HaarFace" -> <<0, 255, 0, 0>>
      [] source = "Eye" -> <<0, 0, 255, 0>>
      [] source = "LBPFace" -> <<255, 0, 0, 0>>

\* The call after the Rectangle at p is the label of its box, in its colour.
LabelledAt(h, p) ==
    /\ p + 1 <= Len(Ev(h))
    /\ Ev(h)[p + 1].ev = "PutText"
    /\ Ev(h)[p + 1].text = LabelOf(Ev(h)[p].box)
    /\ Ev(h)[p + 1].org = [X |-> Ev(h)[p].box.Min.X, Y |-> Ev(h)[p].box.Min.Y - 10]
    /\ Ev(h)[p + 1].color = Ev(h)[p].color

(***************************************************************************)
(* C9 as claimed.  Every detection drawn, Haar face, eye or LBP face, has  *)
(* its rectangle and, right after it, the label "Size: {w}x{h}" of its own *)
(* box at (minX, minY - 10), both in the colour of its source.             *)
(***************************************************************************)
C9_EveryDetectionLabelled ==
    \A h \in Requests : \A p \in Positions(h) :
      Ev(h)[p].ev = "Rectangle" =>
        /\ Ev(h)[p].color = ColourOf(SourceAt(h, p))
        /\ LabelledAt(h, p)

(***************************************************************************)
(* C9 as amended.  Every Haar face and every LBP face drawn has its        *)
(* rectangle and, right after it, the label "Size: {w}x{h}" of its own box *)
(* at (minX, minY - 10), in green for a Haar face and red for an LBP face; *)
(* an eye has its rectangle in blue and no label: no text is ever drawn in *)
(* blue, and every text drawn follows the rectangle of a face.             *)
(***************************************************************************)
C9_FacesLabelledEyesNot ==
    \A h \in Requests :
      LET evs == Ev(h)
          n == Len(evs)
      IN  \A p \in 1..n :
            /\ evs[p].ev = "Rectangle" =>
                 LET src == SourceAt(h, p)
                 IN  /\ evs[p].color = ColourOf(src)
                     /\ evs[p].thickness = 2
                     /\ src \in {"HaarFace", "LBPFace"} => LabelledAt(h, p)
                     /\ src = "Eye" => (p + 1 <= n => evs[p + 1].ev # "PutText")
            /\ evs[p].ev = "PutText" =>
                 /\ evs[p].color # <<0, 0, 255, 0>>
                 /\ p > 1
                 /\ evs[p - 1].ev = "Rectangle"
                 /\ SourceAt(h, p - 1) \in {"HaarFace", "LBPFace"}

\* A Haar face, an eye in it and an LBP face have all been drawn.
C9_Witness ==
    \E h \in Requests : \E p, q, r \in Positions(h) :
      /\ IsRect(Ev(h)[p], Green) /\ SourceAt(h, p) = "HaarFace"
      /\ IsRect(Ev(h)[q], Blue) /\ SourceAt(h, q) = "Eye"
      /\ IsRect(Ev(h)[r], Red) /\ SourceAt(h, r) = "LBPFace"

(***************************************************************************)
(* C10.  The calls of a request come in a fixed order: the Haar call       *)
(* first; then, for each accepted Haar box in the order the cascade        *)
(* returned them, its rectangle and label, the eye call on its region and  *)
(* the rectangles of all its eyes in the order returned, before the next   *)
(* face; then the LBP call, after every Haar and eye call and drawing;     *)
(* then the LBP drawings; and IMEncode after all of them.                  *)
(***************************************************************************)
GreenBoxes(h) ==
    LET greens == SelectSeq(Ev(h), LAMBDA e : IsRect(e, Green))
    IN  [k \in 1..Len(greens) |-> greens[k].box]

IsHaarPhase(e) ==
    \/ IsCall(e, "haarFaceCascade") \/ IsCall(e, "eyeCascade")
    \/ IsRect(e, Green) \/ IsText(e, Green) \/ IsRect(e, Blue)

IsLbpPhase(e) ==
    IsCall(e, "lbpFaceCascade") \/ IsRect(e, Red) \/ IsText(e, Red)

\* The position of the first call of the LBP pass, past the end when none.
FirstLbp(h) ==
    IF \E q \in Positions(h) : IsLbpPhase(Ev(h)[q])
    THEN CHOOSE q \in Positions(h) :
           /\ IsLbpPhase(Ev(h)[q])
           /\ \A r \in 1..(q - 1) : ~IsLbpPhase(Ev(h)[r])
    ELSE Len(Ev(h)) + 1

C10_FixedOrder ==
    \A h \in Requests :
      LET evs == Ev(h)
          n == Len(evs)
          lbp == FirstLbp(h)
      IN  /\ n > 0 => IsCall(evs[1], "haarFaceCascade")
          /\ GreenBoxes(h) = SelectSeq(Processed(h), WidthInRange)
          /\ lbp <= n => IsCall(evs[lbp], "lbpFaceCascade")
          /\ \A p \in 1..n :
               /\ IsHaarPhase(evs[p]) => p < lbp
               /\ IsLbpPhase(evs[p]) => p >= lbp
               /\ evs[p].ev = "IMEncode" => p = n /\ lbp < p /\ PastLbp(h)
               /\ IsRect(evs[p], Green) =>
                    /\ p + 2 <= n
                    /\ IsText(evs[p + 1], Green)
                    /\ IsCall(evs[p + 2], "eyeCascade")
                    /\ evs[p + 2].mat.roi = evs[p].box
               /\ IsCall(evs[p], "eyeCascade") =>
                    LET eyes == evs[p].result
                        F == evs[p].mat.roi
                    IN  /\ p > 2
                        /\ IsRect(evs[p - 2], Green)
                        /\ p + Len(eyes) <= n
                        /\ \A k \in 1..Len(eyes) :
                             /\ IsRect(evs[p + k], Blue)
                             /\ evs[p + k].box.Min.X = eyes[k].Min.X + F.Min.X
                             /\ evs[p + k].box.Min.Y = eyes[k].Min.Y + F.Min.Y
                        /\ p + Len(eyes) + 1 <= n =>
                             ~IsRect(evs[p + Len(eyes) + 1], Blue)
               /\ IsRect(evs[p], Blue) => SourceAt(h, p) = "Eye"
          /\ PastLbp(h) => lbp <= n
          /\ PastLbp(h) /\ req[h].pc # "imencode" => evs[n].ev = "IMEncode"

\* Two different faces were accepted, each with an eye found in it, the two
\* eyes different, the LBP cascade returned a box, and the frame has been
\* encoded.
C10_Witness ==
    \E h \in Requests :
      /\ Len(GreenBoxes(h)) >= 2
      /\ GreenBoxes(h)[1] # GreenBoxes(h)[2]
      /\ \E p, q \in Positions(h) :
           /\ IsCall(Ev(h)[p], "eyeCascade")
           /\ IsCall(Ev(h)[q], "eyeCascade")
           /\ Ev(h)[p].mat.roi = GreenBoxes(h)[1]
           /\ Ev(h)[q].mat.roi = GreenBoxes(h)[2]
           /\ Len(Ev(h)[p].result) = 1
           /\ Len(Ev(h)[q].result) = 1
           /\ Ev(h)[p].result # Ev(h)[q].result
      /\ \E p \in Positions(h) : IsRect(Ev(h)[p], Red)
      /\ Ev(h)[Len(Ev(h))].ev = "IMEncode"

====
